---- MODULE Spec2Model ----
(***************************************************************************)
(* Model of the citation pipeline of foundry-agent-webapp:                 *)
(*   - insertInlineCitations (frontend/src/utils/citationUtils.ts)         *)
(*   - BlobSasService (namespace WebApp.Api.Services)                      *)
(*   - the /api/chat/stream endpoint with its agent relay                  *)
(*   - NoOpAuthenticationHandler (namespace WebApp.Api)                    *)
(* Strings are sequences of one-character strings, so that slicing,        *)
(* splicing, case folding and substring search are computed, not assumed.  *)
(***************************************************************************)
EXTENDS Integers, Sequences, FiniteSets, TLC

VARIABLES
    content,      \* the caller's content string (argument 1 of insertInlineCitations)
    citations,    \* the caller's citations argument: [present, items]
    returned,     \* outcomes of the calls made so far, oldest first
    constructed,          \* has the BlobSasService constructor run
    _storageAccountName,  \* BlobSasService._storageAccountName (<<>> when null or empty)
    _blobServiceClient,   \* BlobSasService._blobServiceClient: "null" or "client"
    _isEnabled,           \* BlobSasService._isEnabled
    _disposed,            \* BlobSasService._disposed
    startupLog,           \* what the constructor logged
    SAS_TOKEN_DURATION_MINUTES, \* the configuration setting of that name
    _sasTokenDuration,    \* BlobSasService._sasTokenDuration, in minutes
    now,                  \* DateTimeOffset.UtcNow, in minutes
    call,                 \* the AppendSasTokenAsync call in progress or just completed
    prev,                 \* the signed URI returned by the previous call, if any
    message,              \* the full text of the agent's answer to the chat request
    chat,                 \* the /api/chat/stream request: position and locals
    lastRun,              \* the relay's metadata of its last completed run
    events,               \* the Server-Sent Events written to the client, oldest first
    citationsWithSas,     \* the endpoint's list citationsWithSas
    Scheme,               \* AuthenticationHandler.Scheme.Name
    authResults           \* the requests authenticated so far with their results

insertVars == <<content, citations, returned>>

sasVars == <<constructed, _storageAccountName, _blobServiceClient, _isEnabled,
             _disposed, startupLog, SAS_TOKEN_DURATION_MINUTES, _sasTokenDuration,
             now, call, prev>>

chatVars == <<message, chat, lastRun, events, citationsWithSas>>

authVars == <<Scheme, authResults>>

vars == <<content, citations, returned, constructed, _storageAccountName,
          _blobServiceClient, _isEnabled, _disposed, startupLog,
          SAS_TOKEN_DURATION_MINUTES, _sasTokenDuration, now, call, prev,
          message, chat, lastRun, events, citationsWithSas, Scheme, authResults>>

----------------------------------------------------------------------------
(* Bounds of the insertInlineCitations inputs *)

MaxContentLen == 3
MaxCitations == 2
MaxCalls == 2

(* Bound of the clock of the BlobSasService *)
MaxClock == 2

----------------------------------------------------------------------------
(* Generic string helpers *)

Min(a, b) == IF a < b THEN a ELSE b

\* String.prototype.slice(a, b) for non-negative a, b (0-based, b exclusive, clamped)
Slice(s, a, b) == SubSeq(s, Min(a, Len(s)) + 1, Min(b, Len(s)))

\* String.prototype.slice(a)
SliceFrom(s, a) == SubSeq(s, Min(a, Len(s)) + 1, Len(s))

DigitChars == <<"0", "1", "2", "3", "4", "5", "6", "7", "8", "9">>

\* Number-to-string conversion of a non-negative integer (template literal ${n})
RECURSIVE NumberToString(_)
NumberToString(n) ==
    IF n < 10 THEN <<DigitChars[n + 1]>>
    ELSE NumberToString(n \div 10) \o <<DigitChars[(n % 10) + 1]>>

----------------------------------------------------------------------------
(* insertInlineCitations, citationUtils.ts lines 19-54 *)

Undefined == <<"undefined", 0>>
Null == <<"null", 0>>
Num(n) == <<"num", n>>

\* line 20: !citations || citations.length === 0
IsEmptyArg(cits) == (~cits.present) \/ Len(cits.items) = 0

\* line 26: .map((citation, index) => ({ ...citation, originalIndex: index }))
WithOriginalIndex(items) ==
    [i \in 1..Len(items) |->
        [uri |-> items[i].uri,
         startIndex |-> items[i].startIndex,
         endIndex |-> items[i].endIndex,
         originalIndex |-> i - 1]]

\* the filter predicate without the check against content.length
HasValidIndexNoUpperBound(c, text) ==
    /\ c.startIndex # Null
    /\ c.startIndex # Undefined
    /\ c.startIndex[2] >= 0
\* lines 27-32: the filter predicate
HasValidIndex(c, text) ==
    /\ c.startIndex # Null
    /\ c.startIndex # Undefined
    /\ c.startIndex[2] >= 0
    /\ c.startIndex[2] <= Len(text)

\* filtering before the original index is recorded
validCitationsRenumbered(text, items) ==
    WithOriginalIndex(SelectSeq(items, LAMBDA c : HasValidIndex(c, text)))
\* lines 25-32
validCitations(text, items) ==
    SelectSeq(WithOriginalIndex(items), LAMBDA c : HasValidIndex(c, text))

\* line 39: the comparator (b.startIndex ?? 0) - (a.startIndex ?? 0)
Coalesce(v) == IF v[1] = "num" THEN v[2] ELSE 0
\* the comparator with its operands swapped
CompareAscending(a, b) == Coalesce(a.startIndex) - Coalesce(b.startIndex)
\* line 39
CompareCitations(a, b) == Coalesce(b.startIndex) - Coalesce(a.startIndex)

\* Array.prototype.sort is stable: an element goes after every element that
\* does not compare greater than it.
RECURSIVE InsertBeforeEqual(_, _)
\* an unstable sort: an element goes before the elements that compare equal
InsertBeforeEqual(c, s) ==
    IF s = <<>> THEN <<c>>
    ELSE IF CompareCitations(Head(s), c) < 0
         THEN <<Head(s)>> \o InsertBeforeEqual(c, Tail(s))
         ELSE <<c>> \o s
RECURSIVE InsertStable(_, _)
InsertStable(c, s) ==
    IF s = <<>> THEN <<c>>
    ELSE IF CompareCitations(Head(s), c) <= 0
         THEN <<Head(s)>> \o InsertStable(c, Tail(s))
         ELSE <<c>> \o s

RECURSIVE SortArray(_)
SortArray(s) ==
    IF s = <<>> THEN <<>>
    ELSE InsertStable(s[Len(s)], SortArray(SubSeq(s, 1, Len(s) - 1)))

\* line 39
sortedCitations(text, items) == SortArray(validCitations(text, items))

\* the marker as the doc comment shows it (line 17)
MarkerDoc(n, uri) ==
    <<"<", "s", "u", "p", ">", "[">> \o NumberToString(n) \o <<"]", "(">>
        \o uri \o <<")", "<", "/", "s", "u", "p", ">">>
\* line 49: `<sup>\[[${citationNumber}]\](${citation.uri})</sup>`; in a template
\* literal the escapes \[ and \] cook to the bare brackets.
citationMarker(n, uri) ==
    <<"<", "s", "u", "p", ">", "[", "[">> \o NumberToString(n) \o <<"]", "]", "(">>
        \o uri \o <<")", "<", "/", "s", "u", "p", ">">>

\* lines 44-51: the splice loop over sortedCitations
RECURSIVE SpliceAll(_, _)
SpliceAll(result, sorted) ==
    IF sorted = <<>> THEN result
    ELSE LET citation == Head(sorted)
             insertPosition == citation.startIndex[2]
             citationNumber == citation.originalIndex + 1
             marker == citationMarker(citationNumber, citation.uri)
         IN  SpliceAll(Slice(result, 0, insertPosition) \o marker
                           \o SliceFrom(result, insertPosition),
                       Tail(sorted))

Return(v) == [kind |-> "return", value |-> v]
Throw(e) == [kind |-> "throw", value |-> <<e>>]

\* lines 19-54: the outcome of one call
insertInlineCitations(text, cits) ==
    IF IsEmptyArg(cits) THEN Return(text)
    ELSE IF ~cits.present THEN Throw("TypeError")
    ELSE IF validCitations(text, cits.items) = <<>> THEN Return(text)
    ELSE Return(SpliceAll(text, sortedCitations(text, cits.items)))

\* the caller's array had sort been applied to it directly
SortedInPlace(cits) ==
    [present |-> cits.present,
     items |-> IF cits.present
               THEN LET s == SortArray(WithOriginalIndex(cits.items))
                    IN  [i \in 1..Len(s) |->
                            [uri |-> s[i].uri, startIndex |-> s[i].startIndex,
                             endIndex |-> s[i].endIndex]]
               ELSE <<>>]
\* What the call leaves in the caller's array: map and filter build new arrays
\* and sort works in place on validCitations, so the argument is untouched.
CitationsAfterCall(cits) == cits

----------------------------------------------------------------------------
(* Inputs *)

Letters == <<"x", "y", "z", "w", "v", "u">>

\* contents: prefixes of distinct letters, plus repeated letters and a text
\* that starts like a marker
Contents ==
    {SubSeq(Letters, 1, n) : n \in 0..MaxContentLen}
        \cup {<<"x", "x">>, <<"<", "s">>}

Uris == {<<"a">>, <<"b">>}

StartIndexValues == {Undefined, Null} \cup {Num(n) : n \in (-1)..(MaxContentLen + 1)}

\* a citation's span ends one character after its start; no start, no end
EndIndexFor(start) == IF start[1] = "num" THEN Num(start[2] + 1) ELSE Undefined

CitationValues ==
    {[uri |-> u, startIndex |-> st, endIndex |-> EndIndexFor(st)] :
        u \in Uris, st \in StartIndexValues}

RECURSIVE SeqsUpTo(_, _)
SeqsUpTo(S, n) ==
    IF n = 0 THEN {<<>>}
    ELSE LET shorter == SeqsUpTo(S, n - 1)
         IN  shorter \cup {Append(s, x) : s \in {t \in shorter : Len(t) = n - 1}, x \in S}

Absent == [present |-> FALSE, items |-> <<>>]

\* the example of the doc comment, citationUtils.ts lines 12-16
DocContent ==
    <<"A","z","u","r","e"," ","p","r","o","v","i","d","e","s"," ","c","l","o","u","d"," ",
      "s","e","r","v","i","c","e","s","."," ","M","i","c","r","o","s","o","f","t"," ",
      "o","f","f","e","r","s"," ","m","a","n","y"," ","s","o","l","u","t","i","o","n","s",".">>
DocUri1 == <<"h","t","t","p","s",":","/","/","a","z","u","r","e",".","c","o","m">>
DocUri2 == <<"h","t","t","p","s",":","/","/","m","i","c","r","o","s","o","f","t",".","c","o","m">>
DocCitations ==
    [present |-> TRUE,
     items |-> << [uri |-> DocUri1, startIndex |-> Num(0), endIndex |-> Num(29)],
                  [uri |-> DocUri2, startIndex |-> Num(30), endIndex |-> Num(63)] >>]


----------------------------------------------------------------------------
(* Reading a result string back: markers and plain characters *)

MarkerOpen == <<"<", "s", "u", "p", ">", "[", "[">>
MarkerMid == <<"]", "]", "(">>
MarkerClose == <<")", "<", "/", "s", "u", "p", ">">>

StartsWithAt(s, i, p) ==
    /\ i + Len(p) - 1 <= Len(s)
    /\ SubSeq(s, i, i + Len(p) - 1) = p

IsDigit(c) == \E k \in 1..10 : DigitChars[k] = c
DigitValue(c) == (CHOOSE k \in 1..10 : DigitChars[k] = c) - 1

\* first index >= i whose character is not a digit (Len(s) + 1 if none)
RECURSIVE DigitsEnd(_, _)
DigitsEnd(s, i) ==
    IF i > Len(s) \/ ~IsDigit(s[i]) THEN i ELSE DigitsEnd(s, i + 1)

\* first index >= i whose character is c (Len(s) + 1 if none)
RECURSIVE FindChar(_, _, _)
FindChar(s, i, c) ==
    IF i > Len(s) \/ s[i] = c THEN i ELSE FindChar(s, i + 1, c)

RECURSIVE ParseNumber(_)
ParseNumber(d) ==
    IF d = <<>> THEN 0
    ELSE 10 * ParseNumber(SubSeq(d, 1, Len(d) - 1)) + DigitValue(d[Len(d)])

NoMarker == [ok |-> FALSE, number |-> 0, uri |-> <<>>, next |-> 0]

\* the marker <sup>[[n]](uri)</sup> that starts at index i of s, if there is one
MarkerAt(s, i) ==
    IF ~StartsWithAt(s, i, MarkerOpen) THEN NoMarker
    ELSE LET d0 == i + Len(MarkerOpen)
             d1 == DigitsEnd(s, d0)
         IN  IF d1 = d0 \/ ~StartsWithAt(s, d1, MarkerMid) THEN NoMarker
             ELSE LET u0 == d1 + Len(MarkerMid)
                      u1 == FindChar(s, u0, ")")
                  IN  IF ~StartsWithAt(s, u1, MarkerClose) THEN NoMarker
                      ELSE [ok |-> TRUE,
                            number |-> ParseNumber(SubSeq(s, d0, d1 - 1)),
                            uri |-> SubSeq(s, u0, u1 - 1),
                            next |-> u1 + Len(MarkerClose)]

\* the markers of s in text order, each with the number of plain characters before it
RECURSIVE MarkersFrom(_, _, _)
MarkersFrom(s, i, offset) ==
    IF i > Len(s) THEN <<>>
    ELSE LET m == MarkerAt(s, i)
         IN  IF m.ok
             THEN <<[number |-> m.number, uri |-> m.uri, offset |-> offset]>>
                      \o MarkersFrom(s, m.next, offset)
             ELSE MarkersFrom(s, i + 1, offset + 1)
MarkersOf(s) == MarkersFrom(s, 1, 0)

\* s with every marker deleted
RECURSIVE StripFrom(_, _)
StripFrom(s, i) ==
    IF i > Len(s) THEN <<>>
    ELSE LET m == MarkerAt(s, i)
         IN  IF m.ok THEN StripFrom(s, m.next)
             ELSE <<s[i]>> \o StripFrom(s, i + 1)
StripMarkers(s) == StripFrom(s, 1)

----------------------------------------------------------------------------
(* Claims about insertInlineCitations *)

\* positions (1-based) of the citations with a defined, in-range start offset
ValidPositions(text, items) ==
    {i \in 1..Len(items) :
        /\ items[i].startIndex[1] = "num"
        /\ items[i].startIndex[2] >= 0
        /\ items[i].startIndex[2] <= Len(text)}

DistinctStarts(text, items) ==
    \A i, j \in ValidPositions(text, items) :
        i # j => items[i].startIndex[2] # items[j].startIndex[2]

\* every insertion computed against the original text: walking the original
\* offsets 0..Len(text), the marker of the citation that starts at p, then the
\* original character at p
RECURSIVE AgainstOriginal(_, _, _)
AgainstOriginal(text, items, p) ==
    LET here == {i \in ValidPositions(text, items) : items[i].startIndex[2] = p}
        m == IF here = {} THEN <<>>
             ELSE LET i == CHOOSE i \in here : TRUE
                  IN  MarkerOpen \o NumberToString(i) \o MarkerMid
                          \o items[i].uri \o MarkerClose
    IN  IF p >= Len(text) THEN m
        ELSE m \o <<text[p + 1]>> \o AgainstOriginal(text, items, p + 1)

Called == Len(returned) > 0

C2_StableNumbering ==
    \A k \in 1..Len(returned) :
        LET ms == MarkersOf(returned[k].value)
        IN  /\ Len(ms) = Cardinality(ValidPositions(content, citations.items))
            /\ {ms[j] : j \in 1..Len(ms)}
                 = {[number |-> (i - 1) + 1,
                     uri |-> citations.items[i].uri,
                     offset |-> citations.items[i].startIndex[2]] :
                        i \in ValidPositions(content, citations.items)}

\* an invalid citation precedes the only valid one, whose marker shows 2
C2_Witness ==
    /\ Called
    /\ Len(citations.items) = 2
    /\ ValidPositions(content, citations.items) = {2}
    /\ LET ms == MarkersOf(returned[1].value)
       IN  Len(ms) = 1 /\ ms[1].number = 2 /\ ms[1].uri = citations.items[2].uri

\* the citations argument with the start offset of the citation at position i removed
WithoutStart(cits, i) ==
    [present |-> cits.present,
     items |-> [j \in 1..Len(cits.items) |->
                  IF j = i
                  THEN [uri |-> cits.items[j].uri, startIndex |-> Undefined,
                        endIndex |-> cits.items[j].endIndex]
                  ELSE cits.items[j]]]

\* C3: a citation whose startIndex is undefined, null, negative or beyond the
\* end of content contributes no marker and raises no error; the output is the
\* one obtained when that citation has no startIndex at all, and it is content
\* itself when no citation is valid.
C3_InvalidCitationsDropped ==
    \A k \in 1..Len(returned) :
        LET ms == MarkersOf(returned[k].value)
            valid == ValidPositions(content, citations.items)
        IN  /\ returned[k].kind = "return"
            /\ \A i \in (1..Len(citations.items)) \ valid :
                  /\ returned[k] = insertInlineCitations(content, WithoutStart(citations, i))
                  /\ \A j \in 1..Len(ms) : ms[j].number # i
            /\ valid = {} => returned[k].value = content

\* an out-of-range citation next to a valid one
C3_Witness ==
    /\ Called
    /\ Len(citations.items) = 2
    /\ citations.items[1].startIndex = Num(Len(content) + 1)
    /\ ValidPositions(content, citations.items) = {2}
    /\ returned[1].value # content

\* the return value the doc comment gives for its example (lines 12-17)
DocReturns ==
    SubSeq(DocContent, 1, 30) \o MarkerDoc(1, DocUri1)
        \o SubSeq(DocContent, 31, 63) \o MarkerDoc(2, DocUri2)

\* C4: for the example of the doc comment the function returns the content
\* with marker 1 right after "Azure provides cloud services." and marker 2
\* after "Microsoft offers many solutions.", each of the form <sup>[n](uri)</sup>.
C4_DocExample ==
    (content = DocContent /\ citations = DocCitations) =>
        \A k \in 1..Len(returned) : returned[k] = Return(DocReturns)

----------------------------------------------------------------------------
(* Strings of the BlobSasService: case folding and substring search *)

LowerChars == <<"a","b","c","d","e","f","g","h","i","j","k","l","m",
                "n","o","p","q","r","s","t","u","v","w","x","y","z">>
UpperChars == <<"A","B","C","D","E","F","G","H","I","J","K","L","M",
                "N","O","P","Q","R","S","T","U","V","W","X","Y","Z">>

\* the upper-case and lower-case counterpart of every letter
UpperOf == [c \in {LowerChars[k] : k \in 1..26} |->
               UpperChars[CHOOSE k \in 1..26 : LowerChars[k] = c]]
LowerOf == [c \in {UpperChars[k] : k \in 1..26} |->
               LowerChars[CHOOSE k \in 1..26 : UpperChars[k] = c]]

ToUpperChar(c) == IF c \in DOMAIN UpperOf THEN UpperOf[c] ELSE c
ToLowerChar(c) == IF c \in DOMAIN LowerOf THEN LowerOf[c] ELSE c

ToUpper(s) == [i \in 1..Len(s) |-> ToUpperChar(s[i])]
ToLower(s) == [i \in 1..Len(s) |-> ToLowerChar(s[i])]

\* string.Equals(a, b, StringComparison.OrdinalIgnoreCase): compares upper-cased
EqualsOrdinalIgnoreCase(a, b) == ToUpper(a) = ToUpper(b)

\* string.Contains(value): the case-sensitive search
ContainsOrdinal(s, value) ==
    \E i \in 1..(Len(s) - Len(value) + 1) :
        SubSeq(s, i, i + Len(value) - 1) = value
\* string.Contains(value, StringComparison.OrdinalIgnoreCase)
ContainsOrdinalIgnoreCase(s, value) ==
    \E i \in 1..(Len(s) - Len(value) + 1) :
        ToUpper(SubSeq(s, i, i + Len(value) - 1)) = ToUpper(value)
StartsWithOrdinalIgnoreCase(s, value) ==
    Len(s) >= Len(value) /\ ToUpper(SubSeq(s, 1, Len(value))) = ToUpper(value)

\* string.TrimStart('/')
RECURSIVE TrimStartSlash(_)
TrimStartSlash(s) ==
    IF s # <<>> /\ Head(s) = "/" THEN TrimStartSlash(Tail(s)) ELSE s

\* string.Split('/', 2): at most two parts, split at the first '/'
SplitFirstSlash(s) ==
    LET i == FindChar(s, 1, "/")
    IN  IF i > Len(s) THEN <<s>>
        ELSE <<SubSeq(s, 1, i - 1), SubSeq(s, i + 1, Len(s))>>

----------------------------------------------------------------------------
(* URIs.  A string handed to AppendSasTokenAsync is kept by its parts as     *)
(* written: scheme ("" when the string has none), host, path and query       *)
(* (without the leading '?').                                                *)

BlobHostSuffix == <<".", "b", "l", "o", "b", ".", "c", "o", "r", "e", ".", "w", "i", "n", "d", "o", "w", "s", ".", "n", "e", "t">>
SigEquals == <<"s", "i", "g", "=">>

UriString(scheme, host, path, query) ==
    [scheme |-> scheme, host |-> host, path |-> path, query |-> query]

NoUri == UriString("", <<>>, <<>>, <<>>)

\* Uri.TryCreate with UriKind.RelativeOrAbsolute
TryCreateAnyKind(blobUri) == TRUE
\* Uri.TryCreate(blobUri, UriKind.Absolute, out uri)
TryCreateAbsolute(blobUri) == blobUri.scheme # ""
\* Uri.Host: the host in lower case
UriHost(blobUri) == ToLower(blobUri.host)
\* Uri.Query: empty, or '?' and the query
UriQuery(blobUri) == IF blobUri.query = <<>> THEN <<>> ELSE <<"?">> \o blobUri.query
\* Uri.AbsolutePath: never empty for a URI with an authority
UriAbsolutePath(blobUri) == IF blobUri.path = <<>> THEN <<"/">> ELSE blobUri.path

\* line 143: the expected host $"{_storageAccountName}.blob.core.windows.net"
ExpectedHost(account) == account \o BlobHostSuffix

\* the host check with Contains in place of Equals
HostContainsAccount(blobUri, account) ==
    ContainsOrdinalIgnoreCase(UriHost(blobUri), ExpectedHost(account))
\* line 143
HostIsConfiguredAccount(blobUri, account) ==
    EqualsOrdinalIgnoreCase(UriHost(blobUri), ExpectedHost(account))

\* the SAS check looking only at the first query parameter
QueryStartsWithSig(blobUri) ==
    StartsWithOrdinalIgnoreCase(blobUri.query, SigEquals)
\* line 150
HasSasToken(blobUri) ==
    ContainsOrdinalIgnoreCase(UriQuery(blobUri), SigEquals)

\* line 158
pathParts(blobUri) == SplitFirstSlash(TrimStartSlash(UriAbsolutePath(blobUri)))

\* line 159: pathParts.Length < 2
PathIsMalformed(blobUri) == Len(pathParts(blobUri)) < 2

\* lines 256-259: the signed query parameters of a read-only blob grant
\* (version, resource "b", permissions "r", signature)
SasQueryParameters == <<"s", "v", "=", "1", "&", "s", "r", "=", "b", "&", "s", "p", "=", "r", "&", "s", "i", "g", "=", "k">>

\* line 169 and lines 262-267: blobClient.Uri is built from the service
\* endpoint https://{_storageAccountName}.blob.core.windows.net, the container
\* name and the blob name; the builder sets the signed parameters as its query
SasUriToString(account, containerName, blobName) ==
    UriString("https", ToLower(ExpectedHost(account)),
              <<"/">> \o containerName \o <<"/">> \o blobName,
              SasQueryParameters)

----------------------------------------------------------------------------
(* BlobSasService: state, constructor, AppendSasTokenAsync, Dispose *)

RequestFailedException(status) == [type |-> "RequestFailedException", status |-> status]
OtherException(type) == [type |-> type, status |-> 0]

NoResult == [kind |-> "none", value |-> NoUri, exception |-> ""]
Returns(u) == [kind |-> "return", value |-> u, exception |-> ""]
Throws(type) == [kind |-> "throw", value |-> NoUri, exception |-> type]

\* no signed grant; otherwise the fields given to BlobSasBuilder (lines 244-254)
NoGrant ==
    [issued |-> FALSE, container |-> <<>>, blob |-> <<>>, resource |-> "",
     permissions |-> "", startsOn |-> 0, expiresOn |-> 0]

\* no key request; otherwise the window passed to GetUserDelegationKeyAsync
NoKeyWindow == [requested |-> FALSE, startsOn |-> 0, expiresOn |-> 0]

IdleCall ==
    [pc |-> "idle", blobUri |-> NoUri, cancelled |-> FALSE,
     containerName |-> <<>>, blobName |-> <<>>,
     requests |-> 0, log |-> <<>>, result |-> NoResult,
     startsOn |-> 0, expiresOn |-> 0, keyWindow |-> NoKeyWindow, grant |-> NoGrant]

NoPrev == [signed |-> FALSE, ret |-> NoUri]

\* the value of an optional integer setting
NotConfigured == <<"absent", 0>>
Configured(n) == <<"int", n>>

\* the service before its constructor has run
NotConstructed ==
    /\ constructed = FALSE
    /\ _storageAccountName = <<>>
    /\ _blobServiceClient = "null"
    /\ _isEnabled = FALSE
    /\ _disposed = FALSE
    /\ startupLog = <<>>
    /\ _sasTokenDuration = 0
    /\ now = 0
    /\ call = IdleCall
    /\ prev = NoPrev

\* the service before its constructor has run, with the default duration
SasIdle ==
    /\ NotConstructed
    /\ SAS_TOKEN_DURATION_MINUTES = NotConfigured

DefaultDurationMinutes == 60

\* the default applied whatever the setting holds
durationAlwaysDefault(minutes) == DefaultDurationMinutes
\* line 40: configuration.GetValue<int?>("SAS_TOKEN_DURATION_MINUTES") ?? 60
durationMinutes(minutes) ==
    IF minutes = NotConfigured THEN DefaultDurationMinutes ELSE minutes[2]

\* lines 72-100: what the start-up probe logs, by the outcome of GetAccountInfo
\* and of the test GetUserDelegationKey
ProbeLog(accountInfo, testKey) ==
    IF accountInfo = "exception" THEN <<>>
    ELSE IF accountInfo # "ok" THEN <<"FailedToAuthenticate">>
    ELSE IF testKey = "ok" THEN <<"Authenticated", "VerifiedDelegator">>
    ELSE IF testKey = "403" THEN <<"Authenticated", "MissingDelegatorRole">>
    ELSE IF testKey = "requestFailed" THEN <<"Authenticated", "FailedToAuthenticate">>
    ELSE <<"Authenticated">>

\* a probe whose every failure reaches the outer catch
ProbeEscapesOnAnyFailure(accountInfo, testKey) ==
    accountInfo # "ok" \/ testKey # "ok"
\* lines 87, 95 and 109: the probe's exception is not a RequestFailedException,
\* so neither inner catch takes it and it reaches catch (Exception)
ProbeEscapes(accountInfo, testKey) ==
    \/ accountInfo = "exception"
    \/ accountInfo = "ok" /\ testKey = "exception"

\* lines 23-114: the constructor.  name is configuration["STORAGE_ACCOUNT_NAME"];
\* build, accountInfo and testKey are the outcomes of building the client
\* (lines 46-69), of GetAccountInfo (line 74) and of the test
\* GetUserDelegationKey (lines 80-82): "ok", "403" (a RequestFailedException
\* with status 403), "requestFailed" (a RequestFailedException that line 87 does
\* not filter) or "exception" (any other exception).
Construct(name, build, accountInfo, testKey) ==
    /\ ~constructed
    /\ constructed' = TRUE
    /\ _storageAccountName' = name
    /\ _disposed' = FALSE
    /\ _sasTokenDuration' = IF name = <<>> THEN 0 ELSE durationMinutes(SAS_TOKEN_DURATION_MINUTES)
    /\ IF name = <<>>
       THEN /\ _isEnabled' = FALSE
            /\ _blobServiceClient' = "null"
            /\ startupLog' = <<"NotConfigured">>
       ELSE IF build # "ok"
       THEN /\ _isEnabled' = FALSE
            /\ _blobServiceClient' = "null"
            /\ startupLog' = <<"FailedToInitialize">>
       ELSE /\ _blobServiceClient' = "client"
            /\ IF ProbeEscapes(accountInfo, testKey)
               THEN /\ _isEnabled' = FALSE
                    /\ startupLog' = ProbeLog(accountInfo, testKey)
                                         \o <<"FailedToInitialize">>
               ELSE /\ _isEnabled' = TRUE
                    /\ startupLog' = ProbeLog(accountInfo, testKey) \o <<"Initialized">>
    /\ UNCHANGED <<SAS_TOKEN_DURATION_MINUTES, now, call, prev>>

\* the catch clauses without the final catch (Exception)
NoCatchAll(e) ==
    IF e.type = "RequestFailedException" /\ e.status = 403 THEN "AccessDenied"
    ELSE IF e.type = "RequestFailedException" THEN "FailedToGenerate"
    ELSE "uncaught"
\* lines 178-205: the catch clauses of AppendSasTokenAsync, by the message logged
CatchClause(e) ==
    IF e.type = "RequestFailedException" /\ e.status = 403 THEN "AccessDenied"
    ELSE IF e.type = "RequestFailedException" THEN "FailedToGenerate"
    ELSE "UnexpectedError"

\* a failed key request is tried once more before the catch clauses apply
CaughtAfterRetry(c, e, logged) ==
    IF c.pc = "awaiting" /\ c.requests < 2
    THEN [c EXCEPT !.pc = "generating", !.log = c.log \o logged]
    ELSE [c EXCEPT !.pc = "done", !.log = c.log \o logged \o <<CatchClause(e)>>,
                   !.result = Returns(c.blobUri)]
\* the call completes because exception e was thrown inside the try block
Caught(c, e, logged) ==
    IF CatchClause(e) = "uncaught"
    THEN [c EXCEPT !.pc = "done", !.log = c.log \o logged, !.result = Throws(e.type)]
    ELSE [c EXCEPT !.pc = "done", !.log = c.log \o logged \o <<CatchClause(e)>>,
                   !.result = Returns(c.blobUri)]

\* an early return that gives up the URI
ReturnsEmptyUri(c, logged) ==
    [c EXCEPT !.pc = "done", !.log = c.log \o logged, !.result = Returns(NoUri)]
\* the call completes by an early return of the input
ReturnsOriginal(c, logged) ==
    [c EXCEPT !.pc = "done", !.log = c.log \o logged, !.result = Returns(c.blobUri)]

\* what the caller remembers of a completed call: the signed URI it returned
Remember(c) ==
    IF c.pc = "done" /\ c.result.kind = "return" /\ c.result.value # c.blobUri
    THEN [signed |-> TRUE, ret |-> c.result.value]
    ELSE NoPrev

\* an entry check that lets a disposed service answer with the input
ObjectDisposedIgnored(c) ==
    [c EXCEPT !.pc = "done", !.result = Returns(c.blobUri)]
\* line 125: ObjectDisposedException.ThrowIf(_disposed, this), before the try
ObjectDisposed(c) ==
    [c EXCEPT !.pc = "done", !.result = Throws("ObjectDisposedException")]

\* lines 123-169: AppendSasTokenAsync(blobUri, cancellationToken) up to the call
\* of GenerateUserDelegationSasAsync.  clientThrows: whether the SDK refuses to
\* build a blob client (line 169), which it can only do for an empty blob name.
AppendSasTokenAsync(blobUri, clientThrows) ==
    /\ constructed
    /\ call.pc \in {"idle", "done"}
    /\ prev' = Remember(call)
    /\ LET c == [IdleCall EXCEPT !.blobUri = blobUri]
           parts == pathParts(blobUri)
       IN  call' =
             IF _disposed
             THEN ObjectDisposed(c)
             ELSE IF ~_isEnabled \/ _blobServiceClient = "null"
             THEN ReturnsOriginal(c, <<>>)
             ELSE IF ~TryCreateAbsolute(blobUri)
             THEN ReturnsOriginal(c, <<"InvalidUriFormat">>)
             ELSE IF ~HostIsConfiguredAccount(blobUri, _storageAccountName)
             THEN ReturnsOriginal(c, <<"NotFromConfiguredAccount">>)
             ELSE IF HasSasToken(blobUri)
             THEN ReturnsOriginal(c, <<"AlreadyHasSasToken">>)
             ELSE IF PathIsMalformed(blobUri)
             THEN ReturnsOriginal(c, <<"UnableToExtract">>)
             ELSE IF clientThrows /\ parts[2] = <<>>
             THEN Caught(c, OtherException("ArgumentException"), <<>>)
             ELSE [c EXCEPT !.pc = "generating",
                            !.containerName = parts[1], !.blobName = parts[2]]
    /\ UNCHANGED <<constructed, _storageAccountName, _blobServiceClient,
                   _isEnabled, _disposed, startupLog, SAS_TOKEN_DURATION_MINUTES,
                   _sasTokenDuration, now>>

\* lines 211-232: GenerateUserDelegationSasAsync up to the await of
\* GetUserDelegationKeyAsync
RequestDelegationKey ==
    /\ call.pc = "generating"
    /\ call' =
         IF _disposed
         THEN Caught(call, OtherException("ObjectDisposedException"), <<>>)
         ELSE IF _blobServiceClient = "null"
         THEN Caught(call, OtherException("InvalidOperationException"), <<>>)
         ELSE LET startsOn == now
                  expiresOn == startsOn + _sasTokenDuration
              IN  [call EXCEPT
                     !.pc = "awaiting",
                     !.requests = call.requests + 1,
                     !.startsOn = startsOn,
                     !.expiresOn = expiresOn,
                     !.keyWindow = [requested |-> TRUE, startsOn |-> startsOn,
                                    expiresOn |-> expiresOn]]
    /\ UNCHANGED <<constructed, _storageAccountName, _blobServiceClient,
                   _isEnabled, _disposed, startupLog, SAS_TOKEN_DURATION_MINUTES,
                   _sasTokenDuration, now, prev>>

\* the exceptions GetUserDelegationKeyAsync can complete with: denial, another
\* request failure, a credential or network error, and cancellation once the
\* token has fired
KeyFailures(c) ==
    {RequestFailedException(403), RequestFailedException(500),
     OtherException("AuthenticationFailedException"),
     OtherException("HttpRequestException")}
        \cup (IF c.cancelled THEN {OtherException("OperationCanceledException")} ELSE {})

\* a builder that reads the clock again instead of the locals of line 223-224
sasBuilderFromNow(c) ==
    [issued |-> TRUE, container |-> c.containerName, blob |-> c.blobName,
     resource |-> "b", permissions |-> "r",
     startsOn |-> now, expiresOn |-> now + _sasTokenDuration]
\* lines 244-254: the BlobSasBuilder of the grant, read permission only
sasBuilder(c) ==
    [issued |-> TRUE, container |-> c.containerName, blob |-> c.blobName,
     resource |-> "b", permissions |-> "r",
     startsOn |-> c.startsOn, expiresOn |-> c.expiresOn]

\* lines 229-267 and 172-176: the key arrives, the URI is signed and returned
DelegationKeyReceived ==
    /\ call.pc = "awaiting"
    /\ call' = [call EXCEPT
                  !.pc = "done",
                  !.log = call.log \o <<"GeneratedSasToken">>,
                  !.grant = sasBuilder(call),
                  !.result = Returns(SasUriToString(_storageAccountName,
                                                    call.containerName, call.blobName))]
    /\ UNCHANGED <<constructed, _storageAccountName, _blobServiceClient,
                   _isEnabled, _disposed, startupLog, SAS_TOKEN_DURATION_MINUTES,
                   _sasTokenDuration, now, prev>>

\* lines 234-241 and 178-205: the key request fails with e
DelegationKeyFailed(e) ==
    /\ call.pc = "awaiting"
    /\ e \in KeyFailures(call)
    /\ call' = Caught(call, e,
                      IF e.type = "RequestFailedException" /\ e.status = 403
                      THEN <<"FailedToObtainKey">> ELSE <<>>)
    /\ UNCHANGED <<constructed, _storageAccountName, _blobServiceClient,
                   _isEnabled, _disposed, startupLog, SAS_TOKEN_DURATION_MINUTES,
                   _sasTokenDuration, now, prev>>

\* the request's cancellation token fires while the call is in progress
Cancel ==
    /\ call.pc \in {"generating", "awaiting"}
    /\ ~call.cancelled
    /\ call' = [call EXCEPT !.cancelled = TRUE]
    /\ UNCHANGED <<constructed, _storageAccountName, _blobServiceClient,
                   _isEnabled, _disposed, startupLog, SAS_TOKEN_DURATION_MINUTES,
                   _sasTokenDuration, now, prev>>

\* lines 270-277
Dispose ==
    /\ constructed
    /\ _disposed' = TRUE
    /\ UNCHANGED <<constructed, _storageAccountName, _blobServiceClient,
                   _isEnabled, startupLog, SAS_TOKEN_DURATION_MINUTES,
                   _sasTokenDuration, now, call, prev>>

\* time passes
Tick ==
    /\ now < MaxClock
    /\ now' = now + 1
    /\ UNCHANGED <<constructed, _storageAccountName, _blobServiceClient, _isEnabled,
                   _disposed, startupLog, SAS_TOKEN_DURATION_MINUTES,
                   _sasTokenDuration, call, prev>>

----------------------------------------------------------------------------
(* Inputs of the BlobSasService *)

AccountName == <<"A", "c", "c", "t">>
ConfiguredNames == {<<>>, AccountName}
Outcomes == {"ok", "403", "requestFailed", "exception"}

HostExact == <<"A", "c", "c", "t", ".", "b", "l", "o", "b", ".", "c", "o", "r", "e", ".", "w", "i", "n", "d", "o", "w", "s", ".", "n", "e", "t">>
HostLower == <<"a", "c", "c", "t", ".", "b", "l", "o", "b", ".", "c", "o", "r", "e", ".", "w", "i", "n", "d", "o", "w", "s", ".", "n", "e", "t">>
HostUpper == <<"A", "C", "C", "T", ".", "B", "L", "O", "B", ".", "C", "O", "R", "E", ".", "W", "I", "N", "D", "O", "W", "S", ".", "N", "E", "T">>
HostOtherAccount == <<"o", "t", "h", "e", "r", ".", "b", "l", "o", "b", ".", "c", "o", "r", "e", ".", "w", "i", "n", "d", "o", "w", "s", ".", "n", "e", "t">>
HostPrefixedByName == <<"a", "c", "c", "t", ".", "b", "l", "o", "b", ".", "c", "o", "r", "e", ".", "w", "i", "n", "d", "o", "w", "s", ".", "n", "e", "t", ".", "e", "v", "i", "l", ".", "i", "o">>
HostSuffixedByName == <<"e", "v", "i", "l", "a", "c", "c", "t", ".", "b", "l", "o", "b", ".", "c", "o", "r", "e", ".", "w", "i", "n", "d", "o", "w", "s", ".", "n", "e", "t">>
HostContainingName == <<"x", ".", "a", "c", "c", "t", ".", "b", "l", "o", "b", ".", "c", "o", "r", "e", ".", "w", "i", "n", "d", "o", "w", "s", ".", "n", "e", "t", ".", "y">>

Hosts == {HostExact, HostLower, HostUpper, HostOtherAccount, HostPrefixedByName,
          HostSuffixedByName, HostContainingName}

BasePath == <<"/", "c", "/", "b">>
Paths == {<<>>, <<"/">>, <<"/", "c">>, <<"/", "c", "/">>, BasePath, <<"/", "c", "/", "d", "/", "b">>, <<"/", "/", "c", "/", "b">>}

NoQuery == <<>>
QueryForeign == <<"x", "=", "1">>
QuerySig == <<"s", "i", "g", "=", "k">>
QuerySigUpper == <<"s", "v", "=", "1", "&", "S", "I", "G", "=", "k">>
QueryDesign == <<"d", "e", "s", "i", "g", "n", "=", "1">>
QuerySigInValue == <<"x", "=", "s", "i", "g", "=", "1">>
QueryTailOfName == <<"x", "s", "i", "g", "=", "1">>
Queries == {NoQuery, QueryForeign, QuerySig, QuerySigUpper, QueryDesign, QuerySigInValue,
            QueryTailOfName}

\* every scheme, host, path and query, each varied against the others
SampleUris ==
    {UriString(sc, HostLower, BasePath, q) : sc \in {"https", "http", ""}, q \in {NoQuery, QuerySig}}
        \cup {UriString("https", h, BasePath, q) : h \in Hosts, q \in {NoQuery, QueryForeign, QuerySig}}
        \cup {UriString("https", HostLower, p, q) : p \in Paths, q \in {NoQuery, QueryForeign}}
        \cup {UriString("https", HostUpper, BasePath, q) : q \in Queries}
        \cup {UriString("https", HostLower, <<"/", "c">>, QueryTailOfName)}

\* the SDK can refuse a blob client only for an empty blob name
ClientOutcomes(blobUri) ==
    IF Len(pathParts(blobUri)) >= 2 /\ pathParts(blobUri)[2] = <<>>
    THEN BOOLEAN ELSE {FALSE}

\* UsageInfo? and List<ChatCitation>? values that are null
NullUsage == [present |-> FALSE, inputTokens |-> 0, outputTokens |-> 0]
NullCitations == [present |-> FALSE, items |-> <<>>]

\* no relay run has completed: the metadata getters have nothing to return
NoRun == [completed |-> FALSE, usage |-> NullUsage, citations |-> NullCitations]

\* the locals of the endpoint before the request arrives
IdleChat ==
    [pc |-> "idle", produced |-> <<>>, usage |-> NullUsage, citations |-> NullCitations]

\* no chat request has been received
ChatIdle ==
    /\ message = <<>>
    /\ chat = IdleChat
    /\ lastRun = NoRun
    /\ events = <<>>
    /\ citationsWithSas = <<>>

\* no request has reached the authentication handler
AuthIdle ==
    /\ Scheme = ""
    /\ authResults = <<>>

InitInsert ==
    /\ SasIdle
    /\ ChatIdle
    /\ AuthIdle
    /\ returned = <<>>
    /\ \/ /\ content \in Contents
          /\ \/ citations = Absent
             \/ \E items \in SeqsUpTo(CitationValues, MaxCitations) :
                    citations = [present |-> TRUE, items |-> items]
       \/ /\ content = DocContent
          /\ citations = DocCitations

\* one call of insertInlineCitations(content, citations) by the caller
CallInsertInlineCitations ==
    /\ Len(returned) < MaxCalls
    /\ returned' = Append(returned, insertInlineCitations(content, citations))
    /\ citations' = CitationsAfterCall(citations)
    /\ content' = content
    /\ UNCHANGED <<sasVars, chatVars, authVars>>

NextInsert == CallInsertInlineCitations

SpecInsert == InitInsert /\ [][NextInsert]_vars

InitSas ==
    /\ SasIdle
    /\ ChatIdle
    /\ AuthIdle
    /\ content = <<>>
    /\ citations = Absent
    /\ returned = <<>>

NextSas ==
    \/ \E name \in ConfiguredNames, build \in {"ok", "exception"},
          accountInfo \in Outcomes \ {"403"}, testKey \in Outcomes :
            Construct(name, build, accountInfo, testKey)
                /\ UNCHANGED <<insertVars, chatVars, authVars>>
    \/ \E blobUri \in SampleUris \cup (IF Remember(call).signed THEN {call.result.value} ELSE {}) :
          \E clientThrows \in ClientOutcomes(blobUri) :
            AppendSasTokenAsync(blobUri, clientThrows) /\ UNCHANGED <<insertVars, chatVars, authVars>>
    \/ RequestDelegationKey /\ UNCHANGED <<insertVars, chatVars, authVars>>
    \/ DelegationKeyReceived /\ UNCHANGED <<insertVars, chatVars, authVars>>
    \/ \E e \in KeyFailures(call) : DelegationKeyFailed(e) /\ UNCHANGED <<insertVars, chatVars, authVars>>
    \/ Cancel /\ UNCHANGED <<insertVars, chatVars, authVars>>
    \/ Dispose /\ UNCHANGED <<insertVars, chatVars, authVars>>

SpecSas == InitSas /\ [][NextSas]_vars

----------------------------------------------------------------------------
(* Claims about BlobSasService.AppendSasTokenAsync *)

\* the two strings have the same letters up to case
SameIgnoringCase(a, b) ==
    /\ Len(a) = Len(b)
    /\ \A i \in 1..Len(a) :
          \/ a[i] = b[i]
          \/ \E k \in 1..26 : {a[i], b[i]} = {LowerChars[k], UpperChars[k]}

\* the parameters of a query string, split at '&'
RECURSIVE QueryParameters(_)
QueryParameters(q) ==
    IF q = <<>> THEN {}
    ELSE LET i == FindChar(q, 1, "&")
         IN  {SubSeq(q, 1, i - 1)} \cup QueryParameters(SubSeq(q, i + 1, Len(q)))

ParameterName(param) == SubSeq(param, 1, FindChar(param, 1, "=") - 1)

\* the query has a parameter named sig
CarriesSignature(u) ==
    \E param \in QueryParameters(u.query) : ParameterName(param) = <<"s", "i", "g">>

\* the path without its leading slashes
Unrooted(path) ==
    LET first == IF \E i \in 1..Len(path) : path[i] # "/"
                 THEN CHOOSE i \in 1..Len(path) :
                        path[i] # "/" /\ \A j \in 1..(i - 1) : path[j] = "/"
                 ELSE Len(path) + 1
    IN  SubSeq(path, first, Len(path))

\* the path names a container and, after a slash, a blob path
HasContainerAndBlob(u) == \E i \in 1..Len(Unrooted(u.path)) : Unrooted(u.path)[i] = "/"
ContainerOf(u) ==
    SubSeq(Unrooted(u.path), 1, FindChar(Unrooted(u.path), 1, "/") - 1)
BlobPathOf(u) ==
    SubSeq(Unrooted(u.path), FindChar(Unrooted(u.path), 1, "/") + 1, Len(Unrooted(u.path)))

OnConfiguredAccount(u) ==
    SameIgnoringCase(u.host, _storageAccountName \o BlobHostSuffix)

Completed == call.pc = "done"
Returned == call.pc = "done" /\ call.result.kind = "return"
InLog(tag) == \E i \in 1..Len(call.log) : call.log[i] = tag

\* C6 as stated: in every state of the service, disposed included, and for
\* every outcome of the key request, the call returns a signed URI or the exact
\* input and no exception reaches the caller.
C6_NeverRaises ==
    Completed =>
        /\ call.result.kind = "return"
        /\ call.result.value = call.blobUri \/ CarriesSignature(call.result.value)

\* C6 amended: a call raises exactly when the service is already disposed when
\* the call starts, and then it raises ObjectDisposedException; every other
\* call, whatever the key request answers and even if the service is disposed
\* or the token cancelled while it waits, returns a signed URI or the exact input.
C6_FailOpenUnlessDisposedAtEntry ==
    [][(call'.pc = "done" /\ (call.pc # "done" \/ call' # call)) =>
          /\ call'.result.kind = "throw" <=> (call.pc \in {"idle", "done"} /\ _disposed)
          /\ call'.result.kind = "throw" =>
                call'.result.exception = "ObjectDisposedException"
          /\ call'.result.kind = "return" =>
                \/ call'.result.value = call'.blobUri
                \/ CarriesSignature(call'.result.value)]_vars

\* the token was cancelled and the key request failed, and the input came back
C6_Witness ==
    /\ Returned
    /\ call.requests = 1
    /\ call.cancelled
    /\ InLog("UnexpectedError")
    /\ call.result.value = call.blobUri

\* every condition under which a key may be requested
MayRequestKey(u) ==
    /\ _isEnabled
    /\ _storageAccountName # <<>>
    /\ u.scheme # ""
    /\ OnConfiguredAccount(u)
    /\ ~CarriesSignature(u)
    /\ HasContainerAndBlob(u)

\* C7: a delegation key is requested only when the service is enabled, the
\* input is an absolute URI on the configured account, its query carries no
\* signature and its path has a container and a blob path; in every other case
\* the call returns the input exactly as given and makes no request.
C7_RequestsOnlyWhenApplicable ==
    /\ call.requests > 0 => MayRequestKey(call.blobUri)
    /\ call.pc \in {"generating", "awaiting"} => MayRequestKey(call.blobUri)
    /\ (Returned /\ ~MayRequestKey(call.blobUri)) =>
          /\ call.result.value = call.blobUri
          /\ call.requests = 0

\* a URI on the configured account whose path has a single segment
C7_Witness ==
    /\ Returned
    /\ _isEnabled
    /\ OnConfiguredAccount(call.blobUri)
    /\ call.blobUri.scheme = "https"
    /\ ~HasContainerAndBlob(call.blobUri)
    /\ call.blobUri.path # <<>>
    /\ InLog("UnableToExtract")
    /\ call.result.value = call.blobUri

\* C8: a URI is rewritten only if its host equals
\* <storageAccountName>.blob.core.windows.net ignoring letter case; a URI on
\* another account or on a look-alike host comes back unchanged with no key
\* request, and a host that differs only in letter case passes the host check.
C8_HostMatchExactIgnoringCase ==
    /\ call.requests > 0 => OnConfiguredAccount(call.blobUri)
    /\ Returned =>
          /\ call.result.value # call.blobUri => OnConfiguredAccount(call.blobUri)
          /\ ~OnConfiguredAccount(call.blobUri) =>
                call.result.value = call.blobUri /\ call.requests = 0
          /\ (_isEnabled /\ _blobServiceClient # "null" /\ call.blobUri.scheme # "") =>
                (InLog("NotFromConfiguredAccount") <=> ~OnConfiguredAccount(call.blobUri))

\* an upper-case host on the configured account got signed
C8_Witness ==
    /\ Returned
    /\ call.blobUri.host = HostUpper
    /\ call.blobUri.host # _storageAccountName \o BlobHostSuffix
    /\ call.result.value # call.blobUri
    /\ CarriesSignature(call.result.value)

\* C9: once a call has returned a signed URI s, a further call with s completes
\* at once without a key request, and what it returns is s.
C9_IdempotentOnceSigned ==
    (prev.signed /\ call.blobUri = prev.ret /\ call.pc # "idle") =>
        /\ call.pc = "done"
        /\ call.requests = 0
        /\ call.result.kind = "return" => call.result.value = prev.ret

\* the signed URI of the previous call was passed again and came back
C9_Witness ==
    /\ prev.signed
    /\ call.blobUri = prev.ret
    /\ Returned
    /\ call.result.value = prev.ret
    /\ InLog("AlreadyHasSasToken")

\* the names of the signed-grant parameters
SignedParameterNames ==
    {<<"s", "v">>, <<"s", "r">>, <<"s", "p">>, <<"s", "i", "g">>}

\* C10: when signing succeeds the returned URI is the input with the signed
\* parameters appended: scheme, host, container, blob path and every query
\* parameter of the input are kept, and only signed-grant parameters are added.
C10_OriginalUriKept ==
    (Returned /\ InLog("GeneratedSasToken")) =>
        LET in == call.blobUri
            out == call.result.value
        IN  /\ out.scheme = in.scheme
            /\ SameIgnoringCase(out.host, in.host)
            /\ ContainerOf(out) = ContainerOf(in)
            /\ BlobPathOf(out) = BlobPathOf(in)
            /\ QueryParameters(in.query) \subseteq QueryParameters(out.query)
            /\ \A param \in QueryParameters(out.query) \ QueryParameters(in.query) :
                  ParameterName(param) \in SignedParameterNames

----------------------------------------------------------------------------
(* The grants of the BlobSasService: the duration setting and the clock *)

\* the longest duration named by the configuration guidance
MaxDocumentedMinutes == 10080

Durations == {NotConfigured, Configured(5), Configured(MaxDocumentedMinutes + 1)}

GrantUris ==
    {UriString("https", HostLower, BasePath, NoQuery),
     UriString("https", HostUpper, <<"/", "c", "/", "d", "/", "b">>, QueryForeign),
     UriString("https", HostOtherAccount, BasePath, NoQuery)}

InitGrant ==
    /\ NotConstructed
    /\ ChatIdle
    /\ AuthIdle
    /\ SAS_TOKEN_DURATION_MINUTES \in Durations
    /\ content = <<>>
    /\ citations = Absent
    /\ returned = <<>>

NextGrant ==
    \/ \E name \in ConfiguredNames, testKey \in {"ok", "403"} :
            Construct(name, "ok", "ok", testKey) /\ UNCHANGED <<insertVars, chatVars, authVars>>
    \/ \E blobUri \in GrantUris :
            AppendSasTokenAsync(blobUri, FALSE) /\ UNCHANGED <<insertVars, chatVars, authVars>>
    \/ RequestDelegationKey /\ UNCHANGED <<insertVars, chatVars, authVars>>
    \/ DelegationKeyReceived /\ UNCHANGED <<insertVars, chatVars, authVars>>
    \/ \E e \in KeyFailures(call) : DelegationKeyFailed(e) /\ UNCHANGED <<insertVars, chatVars, authVars>>
    \/ Cancel /\ UNCHANGED <<insertVars, chatVars, authVars>>
    \/ Dispose /\ UNCHANGED <<insertVars, chatVars, authVars>>
    \/ Tick /\ UNCHANGED <<insertVars, chatVars, authVars>>

SpecGrant == InitGrant /\ [][NextGrant]_vars

\* the duration the configuration asks for, in minutes
ConfiguredDuration ==
    IF SAS_TOKEN_DURATION_MINUTES[1] = "int" THEN SAS_TOKEN_DURATION_MINUTES[2] ELSE 60

\* C11: every grant is read-only, names resource type "b" and the container and
\* blob path of the URI passed in, and is valid from the moment the signing
\* ran to that moment plus the configured duration (60 minutes when the setting
\* is absent); the delegation key is requested for the same window.
C11_GrantReadOnlySingleBlobWindow ==
    [][/\ call'.requests > call.requests =>
              /\ call'.keyWindow.requested
              /\ call'.keyWindow.startsOn = now
              /\ call'.keyWindow.expiresOn = now + ConfiguredDuration
       /\ call'.grant.issued =>
              /\ call'.grant.permissions = "r"
              /\ call'.grant.resource = "b"
              /\ call'.grant.container = ContainerOf(call'.blobUri)
              /\ call'.grant.blob = BlobPathOf(call'.blobUri)
              /\ call'.keyWindow.requested
              /\ call'.grant.startsOn = call'.keyWindow.startsOn
              /\ call'.grant.expiresOn = call'.keyWindow.expiresOn
              /\ call'.grant.expiresOn <= call'.keyWindow.expiresOn]_vars

\* a grant was issued after time passed during the key request, under a
\* configured duration
C11_Witness ==
    /\ call.grant.issued
    /\ SAS_TOKEN_DURATION_MINUTES # NotConfigured
    /\ now > call.grant.startsOn
    /\ Returned
    /\ InLog("GeneratedSasToken")

\* a grant was issued under the default duration
C11_WitnessDefault ==
    /\ call.grant.issued
    /\ SAS_TOKEN_DURATION_MINUTES = NotConfigured
    /\ call.grant.expiresOn - call.grant.startsOn = 60

\* C12: no grant is valid for more than 10080 minutes, whatever the setting holds.
C12_GrantAtMostSevenDays ==
    call.grant.issued =>
        call.grant.expiresOn - call.grant.startsOn <= MaxDocumentedMinutes

\* C13: one call issues at most one delegation-key request, and a request
\* that fails ends the call at once with the URI passed in as its result.
C13_SigningNeverRetried ==
    [][/\ call'.requests <= 1
       /\ (call.pc = "awaiting" /\ call'.pc # "awaiting") =>
              /\ call'.pc = "done"
              /\ call'.requests = 1
              /\ call'.blobUri = call.blobUri
              /\ \/ call'.grant.issued
                 \/ call'.result = Returns(call.blobUri)]_vars

\* a key request failed with a transient error, with a denial, or with a
\* network error, and the call returned its input after that single request
C13_Witness ==
    /\ Returned
    /\ call.requests = 1
    /\ ~call.grant.issued
    /\ call.result.value = call.blobUri
    /\ InLog("FailedToGenerate") \/ InLog("AccessDenied") \/ InLog("UnexpectedError")

----------------------------------------------------------------------------
(* Citations that share a start offset *)

\* C18: the markers of valid citations that share a startIndex stand side by
\* side at that offset, the one with the larger display number first (the
\* citation listed later comes first in the text), and the characters of
\* content before and after them are unchanged.
C18_SharedOffsetDescending ==
    \A k \in 1..Len(returned) :
        LET ms == MarkersOf(returned[k].value)
            valid == ValidPositions(content, citations.items)
        IN  /\ returned[k].kind = "return"
            /\ StripMarkers(returned[k].value) = content
            /\ \A i \in valid :
                  \E j \in 1..Len(ms) :
                      /\ ms[j].number = i
                      /\ ms[j].offset = citations.items[i].startIndex[2]
            /\ \A i, j \in 1..Len(ms) :
                  (i < j /\ ms[i].offset = ms[j].offset) =>
                      ms[i].number > ms[j].number

\* two valid citations share a start offset inside content and both markers
\* are in the returned text
C18_Witness ==
    /\ Called
    /\ Len(citations.items) = 2
    /\ ValidPositions(content, citations.items) = {1, 2}
    /\ citations.items[1].startIndex = citations.items[2].startIndex
    /\ citations.items[1].startIndex[2] > 0
    /\ citations.items[1].startIndex[2] < Len(content)
    /\ Len(MarkersOf(returned[1].value)) = 2
    /\ MarkersOf(returned[1].value)[1].number = 2

----------------------------------------------------------------------------
(* The already-signed check of AppendSasTokenAsync *)

\* the letters s, i, g in either case followed by '=' occur somewhere in q
HasSigSubstring(q) ==
    \E i \in 1..(Len(q) - 3) :
        /\ q[i] \in {"s", "S"}
        /\ q[i + 1] \in {"i", "I"}
        /\ q[i + 2] \in {"g", "G"}
        /\ q[i + 3] = "="

\* the call in progress or completed was given to GenerateUserDelegationSasAsync
SentForSigning == call.pc \in {"generating", "awaiting"} \/ call.requests > 0

\* C19: on an enabled service, a URI of the configured account whose query has
\* "sig=" anywhere, in any letter case, is returned unchanged with no key
\* request, whatever its path; a URI of the configured account with a
\* container and a blob path is sent for signing exactly when its query lacks
\* that substring.  Stated for calls admitted at entry.
C19_SigSubstringMeansSigned ==
    LET u == call.blobUri
        admitted == call.pc # "idle" /\ (Completed => Returned)
        applicable == /\ _isEnabled
                      /\ _storageAccountName # <<>>
                      /\ u.scheme # ""
                      /\ OnConfiguredAccount(u)
    IN  (admitted /\ applicable) =>
            /\ HasSigSubstring(u.query) =>
                  /\ Returned
                  /\ call.result.value = u
                  /\ call.requests = 0
                  /\ InLog("AlreadyHasSasToken")
            /\ SentForSigning => ~HasSigSubstring(u.query)
            /\ (~HasSigSubstring(u.query) /\ HasContainerAndBlob(u)
                    /\ BlobPathOf(u) # <<>>) =>
                  \/ SentForSigning
                  \/ Completed /\ _disposed /\ InLog("UnexpectedError")

\* a URI whose only match is the tail of the parameter name "xsig" came back
\* unchanged
C19_Witness ==
    /\ Returned
    /\ call.blobUri.query = QueryTailOfName
    /\ HasContainerAndBlob(call.blobUri)
    /\ call.result.value = call.blobUri
    /\ call.requests = 0
    /\ InLog("AlreadyHasSasToken")

\* so did one with SIG= in upper case, and one with sig= inside a value
C19_WitnessUpperCase ==
    /\ Returned
    /\ call.blobUri.query \in {QuerySigUpper, QuerySigInValue}
    /\ call.result.value = call.blobUri
    /\ InLog("AlreadyHasSasToken")

\* a URI without the substring was sent for signing and came back signed
C19_WitnessSent ==
    /\ call.blobUri.query = QueryForeign
    /\ call.requests = 1
    /\ Returned
    /\ call.grant.issued

\* C19 as stated, with its example: a URI of the configured account whose
\* query holds the parameter name "design=" counts as already signed, so it is
\* returned unchanged and no key is requested for it.
C19_DesignCountsAsSigned ==
    LET u == call.blobUri
    IN  /\ C19_SigSubstringMeansSigned
        /\ (/\ call.pc # "idle"
            /\ Completed => Returned
            /\ _isEnabled
            /\ OnConfiguredAccount(u)
            /\ u.query = QueryDesign) =>
                /\ ~SentForSigning
                /\ Completed => call.result.value = u

----------------------------------------------------------------------------
(* The enabled flag of the BlobSasService *)

InStartupLog(tag) == \E i \in 1..Len(startupLog) : startupLog[i] = tag

\* the start-up probe failed with a request failure that was only logged
ProbeFailureLogged ==
    InStartupLog("FailedToAuthenticate") \/ InStartupLog("MissingDelegatorRole")

\* C20 as stated: the flag is true exactly when the account name is non-empty
\* and building the client did not throw, whatever the start-up probe did.
C20_EnabledIffClientBuilt ==
    constructed =>
        (_isEnabled <=> (_storageAccountName # <<>> /\ _blobServiceClient = "client"))

\* the flag of a constructed service agrees with what the constructor met
EnabledAsDecided ==
    /\ _isEnabled => (_storageAccountName # <<>> /\ _blobServiceClient = "client")
    /\ ProbeFailureLogged => _isEnabled
    /\ (_storageAccountName # <<>> /\ _blobServiceClient = "client" /\ ~_isEnabled) =>
          InStartupLog("FailedToInitialize")
    /\ (/\ ProbeFailureLogged
        /\ call.pc # "idle"
        /\ Completed => Returned
        /\ call.blobUri.scheme # ""
        /\ OnConfiguredAccount(call.blobUri)
        /\ ~HasSigSubstring(call.blobUri.query)
        /\ HasContainerAndBlob(call.blobUri)
        /\ BlobPathOf(call.blobUri) # <<>>) =>
          \/ SentForSigning
          \/ Completed /\ _disposed

\* C20: the flag is set by the constructor and never changes afterwards.  It is
\* true only if the account name is non-empty and the client was built; a probe
\* that fails with a request failure (on the account information, or a 403 or
\* another request failure on the test key) is only logged and leaves the flag
\* true, so a later matching URI is still sent for signing; with a client
\* built, the flag is false only when the probe raised something else, which
\* the constructor logs as a failed initialization.
C20_EnabledDecidedOnce ==
    [][/\ constructed => _isEnabled' = _isEnabled
       /\ constructed' => EnabledAsDecided']_vars

\* the probe was denied the delegation key at start-up; a later call for a
\* matching URI requested a key, was denied and returned its input
C20_Witness ==
    /\ InStartupLog("MissingDelegatorRole")
    /\ _isEnabled
    /\ Returned
    /\ call.requests = 1
    /\ InLog("AccessDenied")
    /\ call.result.value = call.blobUri

\* the probe raised something other than a request failure: a client exists
\* and the service is disabled
C20_WitnessDisabledByProbe ==
    /\ constructed
    /\ _storageAccountName # <<>>
    /\ _blobServiceClient = "client"
    /\ ~_isEnabled

----------------------------------------------------------------------------
(* NoOpAuthenticationHandler (backend/WebApp.Api/NoOpAuthenticationHandler.cs) *)

(* Bound of the requests authenticated in one behaviour *)
MaxRequests == 3

\* System.Security.Claims.ClaimTypes.Name
ClaimTypesName == "http://schemas.xmlsoap.org/ws/2005/05/identity/claims/name"

Claim(type, value) == [type |-> type, value |-> value]
ClaimsIdentity(claims, authenticationType) ==
    [claims |-> claims, authenticationType |-> authenticationType]
ClaimsPrincipal(identity) == [identity |-> identity]
AuthenticationTicket(principal, authenticationScheme) ==
    [principal |-> principal, authenticationScheme |-> authenticationScheme]

NoTicket == AuthenticationTicket(ClaimsPrincipal(ClaimsIdentity(<<>>, "")), "")

\* AuthenticateResult.Success, .NoResult and .Fail
Success(ticket) == [succeeded |-> TRUE, none |-> FALSE, failure |-> "", ticket |-> ticket]
NoAuthResult == [succeeded |-> FALSE, none |-> TRUE, failure |-> "", ticket |-> NoTicket]
Fail(failure) == [succeeded |-> FALSE, none |-> FALSE, failure |-> failure, ticket |-> NoTicket]

\* lines 23-28
claims ==
    <<Claim(ClaimTypesName, "Local Developer"),
      Claim("oid", "local-dev-user-id"),
      Claim("name", "Local Developer")>>

\* a handler that looks at the Authorization header of the request
HandleAuthenticateWithToken(request) ==
    IF request.authorization = "none" THEN NoAuthResult
    ELSE IF request.authorization # "Bearer valid" THEN Fail("invalid token")
    ELSE Success(AuthenticationTicket(
                    ClaimsPrincipal(ClaimsIdentity(claims, Scheme)), Scheme))
\* lines 21-35: HandleAuthenticateAsync(), which never reads the request
HandleAuthenticateAsync(request) ==
    LET identity == ClaimsIdentity(claims, Scheme)
        principal == ClaimsPrincipal(identity)
        ticket == AuthenticationTicket(principal, Scheme)
    IN  Success(ticket)

\* what a request can carry
Requests ==
    [authorization : {"none", "Bearer valid", "Bearer expired", "Bearer garbage", "Basic dXNlcg=="},
     path : {"/api/chat/stream"}]

\* the names the scheme can be registered under
SchemeNames == {"LocalDev", "Bearer"}

\* the authentication middleware runs the handler for a request
Authenticate(request) ==
    /\ Len(authResults) < MaxRequests
    /\ authResults' = Append(authResults,
                             [request |-> request,
                              result |-> HandleAuthenticateAsync(request)])
    /\ UNCHANGED <<Scheme, insertVars, sasVars, chatVars>>

InitAuth ==
    /\ SasIdle
    /\ ChatIdle
    /\ content = <<>>
    /\ citations = Absent
    /\ returned = <<>>
    /\ Scheme \in SchemeNames
    /\ authResults = <<>>

NextAuth == \E request \in Requests : Authenticate(request)

SpecAuth == InitAuth /\ [][NextAuth]_vars

\* ClaimsPrincipal.FindFirst(type): the value of the first claim of that type
HasClaim(principal, type) ==
    \E i \in 1..Len(principal.identity.claims) : principal.identity.claims[i].type = type
FindFirstValue(principal, type) ==
    LET cs == principal.identity.claims
        i == CHOOSE i \in 1..Len(cs) :
                cs[i].type = type /\ \A j \in 1..(i - 1) : cs[j].type # type
    IN  cs[i].value

\* C17: whatever the request carries, the handler's result is a success, never
\* a failure or a no-result, and its principal is the same authenticated mock
\* identity each time, with Name "Local Developer" and oid "local-dev-user-id".
C17_AlwaysMockIdentity ==
    \A k \in 1..Len(authResults) :
        LET result == authResults[k].result
            principal == result.ticket.principal
        IN  /\ result.succeeded
            /\ ~result.none
            /\ result.failure = ""
            /\ principal.identity.authenticationType # ""
            /\ HasClaim(principal, ClaimTypesName)
            /\ FindFirstValue(principal, ClaimTypesName) = "Local Developer"
            /\ HasClaim(principal, "oid")
            /\ FindFirstValue(principal, "oid") = "local-dev-user-id"
            /\ principal = authResults[1].result.ticket.principal

\* a request without a token, one with an expired token and one with a token
\* that is not a bearer token were all authenticated
C17_Witness ==
    /\ Len(authResults) = 3
    /\ authResults[1].request.authorization = "none"
    /\ authResults[2].request.authorization = "Bearer expired"
    /\ authResults[3].request.authorization = "Basic dXNlcg=="
    /\ \A k \in 1..3 : authResults[k].result.succeeded

----------------------------------------------------------------------------
(* The /api/chat/stream endpoint: the agent relay's lazy sequence of text   *)
(* fragments, the metadata of the run, the enrichment of the citations by   *)
(* BlobSasService and the events written to the client                      *)

(* Bounds of one chat request *)
MaxMessageLen == 3
MaxAgentCitations == 2

\* the answers of the agent: all the letters differ, so an order is visible
Messages == {SubSeq(Letters, 1, n) : n \in 1..MaxMessageLen}

RECURSIVE Concat(_)
Concat(parts) == IF parts = <<>> THEN <<>> ELSE Head(parts) \o Concat(Tail(parts))

UsageInfo(inputTokens, outputTokens) ==
    [present |-> TRUE, inputTokens |-> inputTokens, outputTokens |-> outputTokens]
Usages == {NullUsage, UsageInfo(7, 2)}

NullTitle == <<"null", "">>
Title(t) == <<"string", t>>

\* record ChatCitation
ChatCitation(uri, title, startIndex, endIndex) ==
    [Uri |-> uri, Title |-> title, StartIndex |-> startIndex, EndIndex |-> endIndex]

\* a blob of the configured account, a page elsewhere, and a blob of the
\* configured account that already carries a signature
AgentCitationValues ==
    {ChatCitation(UriString("https", HostLower, BasePath, NoQuery),
                  Title("report"), Num(0), Num(1)),
     ChatCitation(UriString("https", HostOtherAccount, BasePath, NoQuery),
                  NullTitle, Null, Null),
     ChatCitation(UriString("https", HostUpper, BasePath, QuerySig),
                  Title("notes"), Num(1), Num(1))}

AgentCitationLists ==
    {NullCitations}
        \cup {[present |-> TRUE, items |-> items] :
                items \in SeqsUpTo(AgentCitationValues, MaxAgentCitations)}

\* the events of the stream
FragmentEvent(text) ==
    [type |-> "fragment", content |-> text, usage |-> NullUsage,
     citations |-> NullCitations]
TerminalEvent(usage, cits) ==
    [type |-> "terminal", content |-> <<>>, usage |-> usage, citations |-> cits]

\* a fragment is written ahead of what was written before
ForwardFirst(written, fragment) == <<FragmentEvent(fragment)>> \o written
\* the body of the await foreach: the fragment is sent to the client
Forward(written, fragment) == Append(written, FragmentEvent(fragment))

\* a stream that ends early still writes a closing record
EndWithRecord(written) == Append(written, TerminalEvent(lastRun.usage, lastRun.citations))
\* a stream that ends early writes nothing more
EndWithoutRecord(written) == written

\* citation with { Uri = uriWithSas }
WithUri(citation, uriWithSas) == [citation EXCEPT !.Uri = uriWithSas]

\* the request arrives: CreateConversationAsync, then StreamMessageAsync is
\* enumerated; msg is what the agent is going to answer
StartStream(msg) ==
    /\ constructed
    /\ ~_disposed
    /\ chat.pc = "idle"
    /\ message' = msg
    /\ chat' = [chat EXCEPT !.pc = "streaming"]
    /\ UNCHANGED <<lastRun, events, citationsWithSas, insertVars, sasVars, authVars>>

\* the relay yields the next n characters of the answer as one fragment and
\* the endpoint forwards it
YieldFragment(n) ==
    /\ chat.pc = "streaming"
    /\ n >= 1
    /\ Len(Concat(chat.produced)) + n <= Len(message)
    /\ LET from == Len(Concat(chat.produced)) + 1
           fragment == SubSeq(message, from, from + n - 1)
       IN  /\ chat' = [chat EXCEPT !.produced = Append(chat.produced, fragment)]
           /\ events' = Forward(events, fragment)
    /\ UNCHANGED <<message, lastRun, citationsWithSas, insertVars, sasVars, authVars>>

\* the run completes: the sequence ends and the relay holds the run's metadata
RunCompletes(usage, cits) ==
    /\ chat.pc = "streaming"
    /\ Concat(chat.produced) = message
    /\ lastRun' = [completed |-> TRUE, usage |-> usage, citations |-> cits]
    /\ chat' = [chat EXCEPT !.pc = "consumed"]
    /\ UNCHANGED <<message, events, citationsWithSas, insertVars, sasVars, authVars>>

\* the wait for the next fragment is cancelled (client disconnect, timeout)
CancelStream ==
    /\ chat.pc = "streaming"
    /\ chat' = [chat EXCEPT !.pc = "cancelled"]
    /\ events' = EndWithoutRecord(events)
    /\ UNCHANGED <<message, lastRun, citationsWithSas, insertVars, sasVars, authVars>>

\* the remote agent service fails mid-stream
FailStream ==
    /\ chat.pc = "streaming"
    /\ chat' = [chat EXCEPT !.pc = "failed"]
    /\ events' = EndWithoutRecord(events)
    /\ UNCHANGED <<message, lastRun, citationsWithSas, insertVars, sasVars, authVars>>

\* GetLastRunUsageAsync and GetLastRunCitationsAsync, after the loop
ReadMetadata ==
    /\ chat.pc = "consumed"
    /\ chat' = [chat EXCEPT !.pc = "enriching",
                            !.usage = lastRun.usage,
                            !.citations = lastRun.citations]
    /\ citationsWithSas' = <<>>
    /\ UNCHANGED <<message, lastRun, events, insertVars, sasVars, authVars>>

\* foreach (var citation in citations): AppendSasTokenAsync(citation.Uri, ct)
EnrichNext ==
    /\ chat.pc = "enriching"
    /\ chat.citations.present
    /\ Len(citationsWithSas) < Len(chat.citations.items)
    /\ AppendSasTokenAsync(chat.citations.items[Len(citationsWithSas) + 1].Uri, FALSE)
    /\ chat' = [chat EXCEPT !.pc = "awaitingSas"]
    /\ UNCHANGED <<message, lastRun, events, citationsWithSas, insertVars, authVars>>

\* citationsWithSas.Add(citation with { Uri = uriWithSas }); an exception of
\* the call leaves the loop and the endpoint
AddCitation ==
    /\ chat.pc = "awaitingSas"
    /\ call.pc = "done"
    /\ IF call.result.kind = "return"
       THEN /\ citationsWithSas' =
                 Append(citationsWithSas,
                        WithUri(chat.citations.items[Len(citationsWithSas) + 1],
                                call.result.value))
            /\ chat' = [chat EXCEPT !.pc = "enriching"]
       ELSE /\ citationsWithSas' = citationsWithSas
            /\ chat' = [chat EXCEPT !.pc = "faulted"]
    /\ UNCHANGED <<message, lastRun, events, insertVars, sasVars, authVars>>

\* the terminal event: the usage metrics and the citation list
SendTerminal ==
    /\ chat.pc = "enriching"
    /\ chat.citations.present => Len(citationsWithSas) = Len(chat.citations.items)
    /\ events' = Append(events,
                        TerminalEvent(chat.usage,
                                      IF chat.citations.present
                                      THEN [present |-> TRUE, items |-> citationsWithSas]
                                      ELSE NullCitations))
    /\ chat' = [chat EXCEPT !.pc = "done"]
    /\ UNCHANGED <<message, lastRun, citationsWithSas, insertVars, sasVars, authVars>>

\* the request's scope ends and disposes the scoped BlobSasService
EndOfScope ==
    /\ chat.pc \in {"done", "cancelled", "failed", "faulted"}
    /\ ~_disposed
    /\ Dispose
    /\ UNCHANGED <<chatVars, insertVars, authVars>>

InitChat ==
    /\ SasIdle
    /\ ChatIdle
    /\ AuthIdle
    /\ content = <<>>
    /\ citations = Absent
    /\ returned = <<>>

NextChat ==
    \/ \E name \in ConfiguredNames, testKey \in {"ok", "403"} :
            Construct(name, "ok", "ok", testKey)
                /\ UNCHANGED <<chatVars, insertVars, authVars>>
    \/ \E msg \in Messages : StartStream(msg)
    \/ \E n \in 1..MaxMessageLen : YieldFragment(n)
    \/ \E usage \in Usages, cits \in AgentCitationLists : RunCompletes(usage, cits)
    \/ CancelStream
    \/ FailStream
    \/ ReadMetadata
    \/ EnrichNext
    \/ RequestDelegationKey /\ UNCHANGED <<chatVars, insertVars, authVars>>
    \/ DelegationKeyReceived /\ UNCHANGED <<chatVars, insertVars, authVars>>
    \/ \E e \in KeyFailures(call) :
            DelegationKeyFailed(e) /\ UNCHANGED <<chatVars, insertVars, authVars>>
    \/ Cancel /\ UNCHANGED <<chatVars, insertVars, authVars>>
    \/ AddCitation
    \/ SendTerminal
    \/ EndOfScope

SpecChat == InitChat /\ [][NextChat]_vars

----------------------------------------------------------------------------
(* Claims about the chat endpoint *)

\* out is what signing makes of in: the same blob of the same account, with a
\* signature in its query
IsSignedFormOf(out, in) ==
    /\ out # in
    /\ CarriesSignature(out)
    /\ SameIgnoringCase(out.host, in.host)
    /\ HasContainerAndBlob(in)
    /\ HasContainerAndBlob(out)
    /\ ContainerOf(out) = ContainerOf(in)
    /\ BlobPathOf(out) = BlobPathOf(in)

TerminalEvents == {k \in 1..Len(events) : events[k].type = "terminal"}

\* C14: the enriched list never loses or reorders citations.  Entry i of
\* citationsWithSas is entry i of the agent's list with the same title and
\* offsets and with either the same URI or its signed form; no signing outcome
\* ends the loop early, and the list sent to the client has the agent's length.
C14_EnrichmentKeepsCitations ==
    /\ chat.pc # "faulted"
    /\ Len(citationsWithSas) <= Len(lastRun.citations.items)
    /\ \A i \in 1..Len(citationsWithSas) :
          LET original == lastRun.citations.items[i]
              sent == citationsWithSas[i]
          IN  /\ sent.Title = original.Title
              /\ sent.StartIndex = original.StartIndex
              /\ sent.EndIndex = original.EndIndex
              /\ \/ sent.Uri = original.Uri
                 \/ IsSignedFormOf(sent.Uri, original.Uri)
    /\ \A k \in TerminalEvents :
          /\ events[k].citations.present = lastRun.citations.present
          /\ events[k].citations.items = citationsWithSas
          /\ Len(events[k].citations.items) = Len(lastRun.citations.items)

\* two citations were sent to the client, the first signed and the second
\* with the URI it came with
C14_Witness ==
    /\ chat.pc = "done"
    /\ TerminalEvents # {}
    /\ Len(citationsWithSas) = 2
    /\ IsSignedFormOf(citationsWithSas[1].Uri, lastRun.citations.items[1].Uri)
    /\ citationsWithSas[2].Uri = lastRun.citations.items[2].Uri

\* the key request of a citation failed and the citation was still sent, with
\* its original URI
C14_WitnessFailure ==
    /\ chat.pc = "done"
    /\ Len(citationsWithSas) >= 1
    /\ call.requests = 1
    /\ ~call.grant.issued
    /\ citationsWithSas[Len(citationsWithSas)].Uri = call.blobUri

\* the contents of the fragment events written so far, oldest first
RECURSIVE FragmentsOf(_)
FragmentsOf(written) ==
    IF written = <<>> THEN <<>>
    ELSE IF Head(written).type = "fragment"
         THEN <<Head(written).content>> \o FragmentsOf(Tail(written))
         ELSE FragmentsOf(Tail(written))

\* the endpoint has read the metadata of the run
MetadataRead == chat.pc \in {"enriching", "awaitingSas", "faulted", "done"}

C16_CancelledStreamHasNoRecord ==
    [][/\ chat'.pc \in {"cancelled", "failed"} =>
             /\ TerminalEvents' = {}
             /\ ~lastRun'.completed
             /\ FragmentsOf(events') = chat'.produced
             /\ Len(events') = Len(chat'.produced)
             /\ chat'.produced = chat.produced
       /\ chat.pc = "streaming" => SubSeq(events', 1, Len(events)) = events
       /\ chat.pc \in {"cancelled", "failed"} =>
             /\ events' = events
             /\ chat' = chat
             /\ lastRun' = lastRun]_vars

\* the stream was cancelled after the first of several fragments
C16_Witness ==
    /\ chat.pc = "cancelled"
    /\ Len(chat.produced) = 1
    /\ Len(events) = 1
    /\ events[1].type = "fragment"
    /\ Len(message) > Len(chat.produced[1])

\* the stream failed after its first fragment
C16_WitnessFailed ==
    /\ chat.pc = "failed"
    /\ Len(events) = 1
    /\ events[1].type = "fragment"

----------------------------------------------------------------------------
(* Cancellation and disposal while a call is in flight *)

\* the step starts a call of AppendSasTokenAsync
CallStarts == call.pc \in {"idle", "done"} /\ call' # call /\ call'.pc # "idle"

\* the step ends the wait for the delegation key
WaitEnds == call.pc = "awaiting" /\ call'.pc # "awaiting"

\* the token fired or the service was disposed during the call in flight
HitInFlight == call.cancelled \/ _disposed

\* u is the signed URI of the blob named by in, with every signed parameter
FullySigned(u, in) ==
    /\ IsSignedFormOf(u, in)
    /\ SignedParameterNames
         \subseteq {ParameterName(param) : param \in QueryParameters(u.query)}

\* C21 as stated: when the token fires or the service is disposed while the
\* call waits for the delegation key, the call completes by returning the
\* original URI.
C21_InFlightReturnsOriginal ==
    [][(WaitEnds /\ HitInFlight) => call'.result = Returns(call.blobUri)]_vars

\* C21: a call whose token fires or whose service is disposed after its entry
\* check never raises: it completes by returning the original URI or, when the
\* key still arrives, the fully signed URI (Dispose alone does not stop the
\* wait); a disposal seen before the key is requested ends the call with the
\* original URI and no request; a call started after Dispose fails at entry
\* with ObjectDisposedException; no returned URI is partially signed.
C21_InFlightNeverRaises ==
    [][/\ (WaitEnds /\ HitInFlight) =>
             /\ call'.pc = "done"
             /\ call'.result.kind = "return"
             /\ \/ call'.result.value = call.blobUri
                \/ call'.grant.issued /\ FullySigned(call'.result.value, call.blobUri)
       /\ (call.pc = "generating" /\ call'.pc # "generating" /\ _disposed) =>
             /\ call'.result = Returns(call.blobUri)
             /\ call'.requests = 0
       /\ (WaitEnds /\ call'.result.kind = "return"
               /\ call'.result.value # call.blobUri) =>
             FullySigned(call'.result.value, call.blobUri)
       /\ CallStarts =>
             (_disposed <=> call'.result = Throws("ObjectDisposedException"))]_vars

\* the token fired during the wait and the call returned its input through
\* the catch-all
C21_Witness ==
    /\ Returned
    /\ call.cancelled
    /\ call.requests = 1
    /\ ~call.grant.issued
    /\ call.result.value = call.blobUri
    /\ InLog("UnexpectedError")

\* the service is disposed while a call waits for the key
C21_WitnessDisposedInFlight ==
    /\ call.pc = "awaiting"
    /\ _disposed

\* the key arrived for a call whose token had fired, and the signed URI was
\* returned
C21_WitnessSignedAfterCancel ==
    /\ Returned
    /\ call.cancelled
    /\ call.grant.issued

\* a call was started on a disposed service
C21_WitnessDisposedAtEntry ==
    /\ Completed
    /\ call.result = Throws("ObjectDisposedException")

====
